---- MODULE Spec2Model ----
(***************************************************************************)
(* ClearML URL encoding proxy (docker/url-proxy/url_proxy.py).             *)
(*                                                                         *)
(* Strings whose characters matter (paths, URLs, query strings) are        *)
(* sequences of one-character strings; header names, header values,        *)
(* methods and bodies are atomic strings.                                  *)
(***************************************************************************)
EXTENDS Integers, Sequences, FiniteSets, TLC

VARIABLES
    fx,        \* one evaluation of fix_url_encoding: [pc, path, out]
    env,       \* the run: which clients send requests, and which workload
    pc,        \* per connection: position of its request in the service
    req,       \* per connection: the inbound request
    handler,   \* per connection: the route handler the router picked
    queue,     \* jobs submitted to the default executor, not yet started
    upstream,  \* per connection: the request handed to requests.request
    calls,     \* per connection: number of requests sent to the file server
    result,    \* per connection: what requests.request returned or raised
    resp       \* per connection: the responses sent back to the caller

vars == <<fx, env, pc, req, handler, queue, upstream, calls, result, resp>>

relayVars == <<env, pc, req, handler, queue, upstream, calls, result, resp>>

-----------------------------------------------------------------------------
(* Bounds *)

\* pieces concatenated to build an input of fix_url_encoding
MaxPieces == 4

\* inbound connections
MaxRequests == 3

Conns == 1..MaxRequests

\* threads of the executor (scaled down from min(32, cpus + 4))
PoolWorkers == 2

\* headers of one file server response
MaxHeaders == 2

-----------------------------------------------------------------------------
(* Character strings *)

SLASH == "/"

UNDERSCORE == "_"

NEWLINE == "\n"

RECURSIVE Flatten(_)
Flatten(ss) == IF ss = <<>> THEN <<>> ELSE Head(ss) \o Flatten(Tail(ss))

\* Python's  needle in hay
Contains(hay, needle) ==
    \E i \in 1..(Len(hay) - Len(needle) + 1) :
        SubSeq(hay, i, i + Len(needle) - 1) = needle

\* hay[from..to] holds no character of the set chars
NoneOf(hay, from, to, chars) == \A i \in from..to : hay[i] \notin chars

CT_BRAIN == <<"C", "T", "_", "B", "R", "A", "I", "N">>

multiclass_segmentation ==
    <<"m", "u", "l", "t", "i", "c", "l", "a", "s", "s", "_",
      "s", "e", "g", "m", "e", "n", "t", "a", "t", "i", "o", "n">>

PERCENT_252F == <<"%", "2", "5", "2", "F">>

-----------------------------------------------------------------------------
(* fix_url_encoding *)

\* positions from..to of hay that hold the character ch
Positions(hay, from, to, ch) == { i \in from..to : hay[i] = ch }

Min(S) == CHOOSE x \in S : \A y \in S : x <= y

\* The ways  ^/([^/]+)/([^/]+)_([^/]+)/(.*)$  matches path, each as the
\* positions [a, u, b, e]: path[a] is the slash after group 1, path[u] the
\* underscore between groups 2 and 3, path[b] the slash after group 3 and
\* path[e] the last character of group 4 (e = b when group 4 is empty).
\* Groups 1 to 3 hold no slash, so a and b are the second and third slash of
\* the path. '.' matches no newline; '$' matches at the end and before a
\* final newline.
Matches(path) ==
    LET n  == Len(path)
        as == IF n >= 1 /\ path[1] = SLASH THEN Positions(path, 2, n, SLASH) ELSE {}
        a  == Min(as)
        bs == Positions(path, a + 1, n, SLASH)
        b  == Min(bs)
    IN  IF as = {} \/ a = 2 THEN {}
        ELSE IF bs = {} THEN {}
        ELSE { m \in [a : {a}, u : Positions(path, a + 2, b - 2, UNDERSCORE),
                      b : {b}, e : {n - 1, n}] :
                 /\ m.b <= m.e
                 /\ NoneOf(path, m.b + 1, m.e, {NEWLINE})
                 /\ m.e = n \/ path[n] = NEWLINE }

\* re.match: the match the backtracking engine finds first; every group is
\* greedy, so group 2 runs to the last underscore that leaves group 3 non-empty
\* and group 4 takes as many characters as '.' and '$' allow.
re_match(path) ==
    LET ms == Matches(path)
    IN  CHOOSE m \in ms : \A o \in ms : o.u < m.u \/ (o.u = m.u /\ o.e <= m.e)

groups(path, m) ==
    [part1 |-> SubSeq(path, 2, m.a - 1),
     part2 |-> SubSeq(path, m.a + 1, m.u - 1),
     part3 |-> SubSeq(path, m.u + 1, m.b - 1),
     rest  |-> SubSeq(path, m.b + 1, m.e)]

\* a variant that looks for the trigger substrings in the whole path
fix_url_encoding_AnyTrigger(path) ==
    IF Matches(path) = {} THEN path
    ELSE LET g == groups(path, re_match(path))
         IN  IF Contains(path, CT_BRAIN) \/ Contains(path, multiclass_segmentation)
             THEN <<SLASH>> \o g.part1 \o PERCENT_252F \o g.part2 \o <<UNDERSCORE>>
                  \o g.part3 \o <<SLASH>> \o g.rest
             ELSE path

fix_url_encoding(path) ==
    IF Matches(path) = {} THEN path
    ELSE LET g  == groups(path, re_match(path))
             p2 == g.part2 \o <<UNDERSCORE>> \o g.part3
         IN  IF Contains(p2, CT_BRAIN) \/ Contains(p2, multiclass_segmentation)
             THEN <<SLASH>> \o g.part1 \o PERCENT_252F \o g.part2 \o <<UNDERSCORE>>
                  \o g.part3 \o <<SLASH>> \o g.rest
             ELSE path

-----------------------------------------------------------------------------
(* Inputs of fix_url_encoding: up to MaxPieces pieces, concatenated *)

Pieces ==
    { <<SLASH>>,
      <<SLASH, "A">>,
      <<SLASH, "x", UNDERSCORE, "y">>,
      <<SLASH>> \o CT_BRAIN,
      <<SLASH>> \o multiclass_segmentation,
      <<SLASH, "c", "t", UNDERSCORE, "b", "r", "a", "i", "n">>,
      <<"A">>,
      <<UNDERSCORE>>,
      CT_BRAIN,
      <<NEWLINE>> }

PieceLists == UNION { [1..n -> Pieces] : n \in 0..MaxPieces }

NotStarted == <<"not", "started">>

NoValue == [kind |-> "none"]

FixInit ==
    /\ fx \in { [pc |-> "start", path |-> Flatten(ps), out |-> NotStarted] : ps \in PieceLists }
    /\ env = [clients |-> {}, workload |-> "none"]
    /\ pc = [c \in Conns |-> "idle"]
    /\ req = [c \in Conns |-> NoValue]
    /\ handler = [c \in Conns |-> "none"]
    /\ queue = <<>>
    /\ upstream = [c \in Conns |-> NoValue]
    /\ calls = [c \in Conns |-> 0]
    /\ result = [c \in Conns |-> NoValue]
    /\ resp = [c \in Conns |-> <<>>]

FixUrl ==
    /\ fx.pc = "start"
    /\ fx' = [fx EXCEPT !.pc = "done", !.out = fix_url_encoding(fx.path)]
    /\ UNCHANGED relayVars

FixNext == FixUrl

FixSpec == FixInit /\ [][FixNext]_vars

-----------------------------------------------------------------------------
(* Configuration and routes *)

FILESERVER_HOST == <<"f", "i", "l", "e", "s", "e", "r", "v", "e", "r">>

FILESERVER_PORT == 8081

Digits == <<"0", "1", "2", "3", "4", "5", "6", "7", "8", "9">>

\* str() of a natural number
RECURSIVE str(_)
str(n) == IF n < 10 THEN <<Digits[n + 1]>> ELSE str(n \div 10) \o <<Digits[(n % 10) + 1]>>

HEALTH_PATH == <<SLASH, "h", "e", "a", "l", "t", "h">>

\* the routes in the order the decorators register them
routes ==
    << [pattern  |-> "/{path:path}",
        methods  |-> {"GET", "POST", "PUT", "DELETE", "HEAD", "OPTIONS"},
        endpoint |-> "proxy_request"],
       [pattern  |-> "/health",
        methods  |-> {"GET"},
        endpoint |-> "health_check"] >>

\* a route matches in full when its path pattern and its method set both do;
\* the {path:path} convertor matches any text, slashes included
RouteMatches(route, r) ==
    /\ r.method \in route.methods
    /\ IF route.pattern = "/{path:path}"
       THEN Len(r.urlpath) >= 1 /\ r.urlpath[1] = SLASH
       ELSE r.urlpath = HEALTH_PATH

\* the router hands the request to the first route that matches in full
Router(r) ==
    LET hits == { i \in 1..Len(routes) : RouteMatches(routes[i], r) }
    IN  IF hits = {} THEN "not_found" ELSE routes[Min(hits)].endpoint

-----------------------------------------------------------------------------
(* proxy_request: the upstream call *)

\* a target URL that loses the query string
TargetUrl_NoQuery(fixed_path, query) ==
    <<"h", "t", "t", "p", ":", "/", "/">> \o FILESERVER_HOST \o <<":">>
        \o str(FILESERVER_PORT) \o fixed_path

TargetUrl(fixed_path, query) ==
    <<"h", "t", "t", "p", ":", "/", "/">> \o FILESERVER_HOST \o <<":">>
        \o str(FILESERVER_PORT) \o fixed_path
        \o (IF query # <<>> THEN <<"?">> \o query ELSE <<>>)

\* dict(request.headers): one entry per name, the first value of a repeated name
HeaderDict(pairs) ==
    LET names == { pairs[i][1] : i \in 1..Len(pairs) }
    IN  [ n \in names |-> pairs[Min({ i \in 1..Len(pairs) : pairs[i][1] = n })][2] ]

allow_redirects_True == TRUE

allow_redirects == FALSE

\* the call sync_request makes: requests.request(method, url, headers, data, ...)
SyncRequest(r) ==
    LET path          == Tail(r.urlpath)
        original_path == <<SLASH>> \o path
        fixed_path    == fix_url_encoding(original_path)
    IN  [method          |-> r.method,
         url             |-> TargetUrl(fixed_path, r.query),
         headers         |-> HeaderDict(r.headers),
         data            |-> r.body,
         allow_redirects |-> allow_redirects]

-----------------------------------------------------------------------------
(* proxy_request: the response *)

\* dict.pop(key, None)
Pop(d, key) == [ k \in DOMAIN d \ {key} |-> d[k] ]

\* d[key] = value
Put(d, key, value) == [ k \in DOMAIN d \cup {key} |-> IF k = key THEN value ELSE d[k] ]

CORS_HEADERS ==
    "DNT,User-Agent,X-Requested-With,If-Modified-Since,Cache-Control,Content-Type,Range,Authorization"

RelayResponse(response) ==
    LET h0 == response.headers
        h1 == Pop(h0, "connection")
        h2 == Pop(h1, "transfer-encoding")
        h3 == Put(h2, "Access-Control-Allow-Origin", "*")
        h4 == Put(h3, "Access-Control-Allow-Methods", "GET, POST, OPTIONS, DELETE, PUT")
        h5 == Put(h4, "Access-Control-Allow-Headers", CORS_HEADERS)
    IN  [status |-> response.status_code, headers |-> h5,
         body |-> response.content, by |-> "relay"]

\* the exception classes  except httpx.RequestError  catches
httpx_RequestError ==
    {"httpx.ConnectError", "httpx.ConnectTimeout", "httpx.ReadTimeout", "httpx.ReadError"}

\* what the caller gets for an exception raised inside the try block: the
\* handler's 502 when the except clause catches it, else the exception leaves
\* the handler and the framework answers 500
ExceptionResponse(exc) ==
    IF exc \in httpx_RequestError
    THEN [status |-> 502, headers |-> [k \in {"Content-Type"} |-> "text/plain"],
          body |-> <<"Proxy error: ", exc>>, by |-> "except"]
    ELSE [status |-> 500,
          headers |-> [k \in {"content-type"} |-> "text/plain; charset=utf-8"],
          body |-> <<"Internal Server Error">>, by |-> "framework"]

HealthResponse ==
    [status |-> 200, headers |-> [k \in {"content-type"} |-> "application/json"],
     body |-> <<"{\"status\": \"healthy\", \"service\": \"clearml-url-proxy\"}">>,
     by |-> "health_check"]

NotFoundResponse ==
    [status |-> 404, headers |-> [k \in {"content-type"} |-> "application/json"],
     body |-> <<"{\"detail\": \"Not Found\"}">>, by |-> "framework"]

-----------------------------------------------------------------------------
(* What clients send and what the file server answers *)

Methods == {"GET", "POST"}

UrlPaths ==
    { HEALTH_PATH,
      <<SLASH, "A", SLASH>> \o CT_BRAIN \o <<UNDERSCORE, "x", SLASH, "t">>,
      <<SLASH, "f", SLASH, "b", UNDERSCORE, "z", SLASH, "q">> }

Queries == { <<>>, <<"d", "=", "1">> }

\* inbound header lists, names in lower case as the server hands them over
InboundHeaders ==
    { <<>>,
      << <<"host", "proxy:8082">>, <<"range", "bytes=0-9">> >>,
      << <<"accept", "text/html">>, <<"accept", "image/png">> >> }

Bodies == {"", "payload"}

Requests ==
    [method : Methods, urlpath : UrlPaths, query : Queries,
     headers : InboundHeaders, body : Bodies]

\* header names a file server may send, in the letter-case it sends them
UpstreamHeaderNames ==
    {"Connection", "connection", "Transfer-Encoding", "transfer-encoding",
     "Access-Control-Allow-Origin", "access-control-allow-origin",
     "access-control-allow-methods", "access-control-allow-headers",
     "Location", "location"}

\* str.lower() on the header names of the model
Lower(name) ==
    CASE name \in {"Connection", "connection"} -> "connection"
      [] name \in {"Transfer-Encoding", "transfer-encoding"} -> "transfer-encoding"
      [] name \in {"Access-Control-Allow-Origin", "access-control-allow-origin"}
            -> "access-control-allow-origin"
      [] name \in {"Access-Control-Allow-Methods", "access-control-allow-methods"}
            -> "access-control-allow-methods"
      [] name \in {"Access-Control-Allow-Headers", "access-control-allow-headers"}
            -> "access-control-allow-headers"
      [] name \in {"Location", "location"} -> "location"
      [] name \in {"Content-Type", "content-type"} -> "content-type"
      [] OTHER -> name

UpstreamValue(name) ==
    CASE Lower(name) = "connection" -> "close"
      [] Lower(name) = "transfer-encoding" -> "chunked"
      [] Lower(name) = "access-control-allow-origin" -> "http://intranet"
      [] Lower(name) = "access-control-allow-methods" -> "GET"
      [] Lower(name) = "access-control-allow-headers" -> "X-Internal"
      [] OTHER -> "/moved"

\* response.headers is a case-insensitive mapping: no name twice in any case
UpstreamHeaderSets ==
    { N \in SUBSET UpstreamHeaderNames :
        /\ Cardinality(N) <= MaxHeaders
        /\ \A a, b \in N : Lower(a) = Lower(b) => a = b }

UpstreamResponses ==
    { [status_code |-> st, headers |-> [n \in N |-> UpstreamValue(n)], content |-> b] :
        st \in {200, 302}, N \in UpstreamHeaderSets, b \in {"", "file-bytes"} }

\* transport failures requests.request raises
TransportErrors == {"requests.ConnectionError", "requests.Timeout"}

\* the plain workload: one kind of request, of answer and of failure
PlainRequests ==
    { [method |-> "GET",
       urlpath |-> <<SLASH, "f", SLASH, "b", UNDERSCORE, "z", SLASH, "q">>,
       query |-> <<>>, headers |-> <<>>, body |-> ""] }

PlainResponses == { [status_code |-> 200, headers |-> <<>>, content |-> "file-bytes"] }

\* what the clients of this run send
Sent == IF env.workload = "any" THEN Requests ELSE PlainRequests

\* what the file server of this run answers
Answers == IF env.workload = "any" THEN UpstreamResponses ELSE PlainResponses

\* how a call to the file server of this run fails
Failures == IF env.workload = "any" THEN TransportErrors ELSE {"requests.Timeout"}

IsRedirect(response) ==
    /\ response.status_code \in 300..399
    /\ \E n \in DOMAIN response.headers : Lower(n) = "location"

-----------------------------------------------------------------------------
(* The service *)

RelayInit(e) ==
    /\ fx = [pc |-> "unused", path |-> <<>>, out |-> <<>>]
    /\ env = e
    /\ pc = [c \in Conns |-> "idle"]
    /\ req = [c \in Conns |-> NoValue]
    /\ handler = [c \in Conns |-> "none"]
    /\ queue = <<>>
    /\ upstream = [c \in Conns |-> NoValue]
    /\ calls = [c \in Conns |-> 0]
    /\ result = [c \in Conns |-> NoValue]
    /\ resp = [c \in Conns |-> <<>>]

\* one connection, every request and every file server answer of the model
Init ==
    RelayInit([clients |-> {1}, workload |-> "any"])

\* a client sends a request
Arrive(c) ==
    /\ c \in env.clients
    /\ pc[c] = "idle"
    /\ \E r \in Sent : req' = [req EXCEPT ![c] = r]
    /\ pc' = [pc EXCEPT ![c] = "accepted"]
    /\ UNCHANGED <<fx, env, handler, queue, upstream, calls, result, resp>>

\* the router picks the endpoint; health_check answers at once
Dispatch(c) ==
    /\ pc[c] = "accepted"
    /\ LET endpoint == Router(req[c])
       IN  /\ handler' = [handler EXCEPT ![c] = endpoint]
           /\ IF endpoint = "proxy_request"
              THEN /\ pc' = [pc EXCEPT ![c] = "handling"]
                   /\ resp' = resp
              ELSE /\ pc' = [pc EXCEPT ![c] = "responded"]
                   /\ resp' = [resp EXCEPT ![c] =
                                 Append(@, IF endpoint = "health_check"
                                           THEN HealthResponse ELSE NotFoundResponse)]
    /\ UNCHANGED <<fx, env, req, queue, upstream, calls, result>>

\* proxy_request up to run_in_executor: the call is built and submitted
Submit(c) ==
    /\ pc[c] = "handling"
    /\ upstream' = [upstream EXCEPT ![c] = SyncRequest(req[c])]
    /\ queue' = Append(queue, c)
    /\ pc' = [pc EXCEPT ![c] = "queued"]
    /\ UNCHANGED <<fx, env, req, handler, calls, result, resp>>

InFlight == { c \in Conns : pc[c] = "inflight" }

\* an executor that runs one call at a time
WorkerAvailable_Single == InFlight = {}

\* a thread of the executor is free
WorkerAvailable == Cardinality(InFlight) < PoolWorkers

\* an executor thread takes the oldest submitted call and sends it
WorkerStart(c) ==
    /\ queue # <<>> /\ Head(queue) = c
    /\ WorkerAvailable
    /\ queue' = Tail(queue)
    /\ calls' = [calls EXCEPT ![c] = @ + 1]
    /\ pc' = [pc EXCEPT ![c] = "inflight"]
    /\ UNCHANGED <<fx, env, req, handler, upstream, result, resp>>

\* the file server answers; a redirect is followed only with allow_redirects
UpstreamRespond(c) ==
    /\ pc[c] = "inflight"
    /\ \E r \in Answers :
        IF upstream[c].allow_redirects /\ IsRedirect(r) /\ calls[c] < 2
        THEN /\ calls' = [calls EXCEPT ![c] = @ + 1]
             /\ UNCHANGED <<pc, result>>
        ELSE /\ result' = [result EXCEPT ![c] = [kind |-> "response", response |-> r]]
             /\ pc' = [pc EXCEPT ![c] = "returned"]
             /\ calls' = calls
    /\ UNCHANGED <<fx, env, req, handler, queue, upstream, resp>>

\* the call fails at the transport level: refused, timed out, no such host
UpstreamFail(c) ==
    /\ pc[c] = "inflight"
    /\ \E e \in Failures : result' = [result EXCEPT ![c] = [kind |-> "raise", exc |-> e]]
    /\ pc' = [pc EXCEPT ![c] = "raised"]
    /\ UNCHANGED <<fx, env, req, handler, queue, upstream, calls, resp>>

\* proxy_request after run_in_executor returned a response
Relay(c) ==
    /\ pc[c] = "returned"
    /\ resp' = [resp EXCEPT ![c] = Append(@, RelayResponse(result[c].response))]
    /\ pc' = [pc EXCEPT ![c] = "responded"]
    /\ UNCHANGED <<fx, env, req, handler, queue, upstream, calls, result>>

\* an exception that ends the connection without an answer
HandleException_Lost(c) ==
    /\ pc[c] = "raised"
    /\ pc' = [pc EXCEPT ![c] = "lost"]
    /\ UNCHANGED <<fx, env, req, handler, queue, upstream, calls, result, resp>>

\* proxy_request after run_in_executor raised
HandleException(c) ==
    /\ pc[c] = "raised"
    /\ resp' = [resp EXCEPT ![c] = Append(@, ExceptionResponse(result[c].exc))]
    /\ pc' = [pc EXCEPT ![c] = "responded"]
    /\ UNCHANGED <<fx, env, req, handler, queue, upstream, calls, result>>

Next ==
    \E c \in Conns :
        \/ Arrive(c)
        \/ Dispatch(c)
        \/ Submit(c)
        \/ WorkerStart(c)
        \/ UpstreamRespond(c)
        \/ UpstreamFail(c)
        \/ Relay(c)
        \/ HandleException(c)

Spec == Init /\ [][Next]_vars

-----------------------------------------------------------------------------
(* Several connections at once, under the plain workload *)

ConcInit ==
    RelayInit([clients |-> Conns, workload |-> "plain"])

ConcSpec == ConcInit /\ [][Next]_vars

\* every step of the service except the arrival of a request
Progress ==
    \E c \in Conns :
        \/ Dispatch(c)
        \/ Submit(c)
        \/ WorkerStart(c)
        \/ UpstreamRespond(c)
        \/ UpstreamFail(c)
        \/ Relay(c)
        \/ HandleException(c)

\* The event loop resumes every ready coroutine, the executor's threads take
\* the queued calls in order, and every call to the file server ends: with a
\* response, with a transport error, or by the 30 s timeout.
LiveSpec == ConcInit /\ [][Next]_vars /\ WF_vars(Progress)

-----------------------------------------------------------------------------
(* The path shape of the rewrite rule, stated by splitting on slashes *)

Slashes(path) == Positions(path, 1, Len(path), SLASH)

\* the k-th smallest element of S
RECURSIVE Kth(_, _)
Kth(S, k) == IF k = 1 THEN Min(S) ELSE Kth(S \ {Min(S)}, k - 1)

SegmentA(path) == SubSeq(path, 2, Kth(Slashes(path), 2) - 1)

SegmentB(path) == SubSeq(path, Kth(Slashes(path), 2) + 1, Kth(Slashes(path), 3) - 1)

Rest(path) == SubSeq(path, Kth(Slashes(path), 3) + 1, Len(path))

\* '/' segmentA '/' segmentB '/' rest, segmentA non-empty, segmentB with an
\* underscore that has a character on each side
HasShape(path) ==
    /\ Len(path) >= 1 /\ path[1] = SLASH
    /\ Cardinality(Slashes(path)) >= 3
    /\ SegmentA(path) # <<>>
    /\ \E i \in 2..(Len(SegmentB(path)) - 1) : SegmentB(path)[i] = UNDERSCORE

HasTrigger(seg) == Contains(seg, CT_BRAIN) \/ Contains(seg, multiclass_segmentation)

\* C1: every path '/' segmentA '/' segmentB '/' rest whose segmentB holds a
\* trigger substring is rewritten to '/' segmentA '%252F' segmentB '/' rest,
\* every character of rest included.
C1_RewriteKeepsEveryOtherCharacter ==
    (fx.pc = "done" /\ HasShape(fx.path) /\ HasTrigger(SegmentB(fx.path)))
        => fx.out = <<SLASH>> \o SegmentA(fx.path) \o PERCENT_252F
                    \o SegmentB(fx.path) \o <<SLASH>> \o Rest(fx.path)

\* C2: a path without the shape, or with the shape but no trigger substring
\* in segmentB, is returned unchanged, wherever else a trigger occurs.
C2_OtherPathsUnchanged ==
    (fx.pc = "done" /\ (~HasShape(fx.path) \/ ~HasTrigger(SegmentB(fx.path))))
        => fx.out = fx.path

\* C2 witness: a path of the shape with a trigger in segmentA and in rest,
\* none in segmentB, came back unchanged.
C2_Witness ==
    /\ fx.pc = "done"
    /\ HasShape(fx.path)
    /\ ~HasTrigger(SegmentB(fx.path))
    /\ HasTrigger(SegmentA(fx.path)) /\ HasTrigger(Rest(fx.path))
    /\ fx.out = fx.path

-----------------------------------------------------------------------------
(* The relay *)

Answered(c) == pc[c] = "responded"

Relayed(c) == Answered(c) /\ result[c].kind = "response"

UrlPrefix ==
    <<"h", "t", "t", "p", ":", "/", "/", "f", "i", "l", "e", "s", "e", "r", "v", "e", "r",
      ":", "8", "0", "8", "1">>

InboundNames(r) == { r.headers[i][1] : i \in 1..Len(r.headers) }

InboundValues(r, name) ==
    { r.headers[i][2] : i \in { j \in 1..Len(r.headers) : r.headers[j][1] = name } }

\* C3: the upstream request is the inbound one with only the path rewritten:
\* URL 'http://fileserver:8081' + fix_url_encoding('/' + path), then '?' +
\* query exactly when the query is non-empty; same method, headers and body.
C3_UpstreamDiffersOnlyInPath ==
    \A c \in Conns :
        upstream[c] # NoValue =>
            /\ upstream[c].url =
                 UrlPrefix \o fix_url_encoding(req[c].urlpath)
                     \o (IF req[c].query = <<>> THEN <<>> ELSE <<"?">> \o req[c].query)
            /\ upstream[c].method = req[c].method
            /\ upstream[c].data = req[c].body
            /\ DOMAIN upstream[c].headers = InboundNames(req[c])
            /\ \A n \in InboundNames(req[c]) :
                   upstream[c].headers[n] \in InboundValues(req[c], n)

\* C3 witness: a request with a query string, headers and a body whose path
\* was rewritten has been handed to the upstream call.
C3_Witness ==
    \E c \in Conns :
        /\ upstream[c] # NoValue
        /\ req[c].query # <<>> /\ req[c].headers # <<>> /\ req[c].body # ""
        /\ Contains(upstream[c].url, PERCENT_252F)
        /\ Contains(upstream[c].url, <<"?">> \o req[c].query)

\* C4: a transport failure of the upstream call is answered with status 502,
\* Content-Type text/plain and a non-empty body, after one upstream attempt.
C4_TransportFailureGives502 ==
    \A c \in Conns :
        (Answered(c) /\ result[c].kind = "raise") =>
            /\ Len(resp[c]) = 1
            /\ resp[c][1].status = 502
            /\ \E n \in DOMAIN resp[c][1].headers :
                   Lower(n) = "content-type" /\ resp[c][1].headers[n] = "text/plain"
            /\ resp[c][1].body # <<>>
            /\ calls[c] = 1

HopByHop == {"connection", "transfer-encoding"}

CorsNames ==
    {"Access-Control-Allow-Origin", "Access-Control-Allow-Methods",
     "Access-Control-Allow-Headers"}

CorsValue(name) ==
    CASE name = "Access-Control-Allow-Origin" -> "*"
      [] name = "Access-Control-Allow-Methods" -> "GET, POST, OPTIONS, DELETE, PUT"
      [] name = "Access-Control-Allow-Headers" ->
            "DNT,User-Agent,X-Requested-With,If-Modified-Since,Cache-Control,Content-Type,Range,Authorization"

\* C5: a relayed response has no Connection and no Transfer-Encoding header in
\* any letter-case; status, body and every other upstream header are copied.
C5_NoHopByHopHeaders ==
    \A c \in Conns :
        Relayed(c) =>
            LET out == resp[c][1]
                up  == result[c].response
            IN  /\ \A n \in DOMAIN out.headers : Lower(n) \notin HopByHop
                /\ out.status = up.status_code
                /\ out.body = up.content
                /\ \A n \in DOMAIN up.headers :
                       (Lower(n) \notin HopByHop /\ Lower(n) \notin { Lower(k) : k \in CorsNames })
                           => (n \in DOMAIN out.headers /\ out.headers[n] = up.headers[n])

\* C6: a relayed response carries the three CORS headers with their fixed
\* values, each the only header of its name in any letter-case.
C6_CorsHeadersOverride ==
    \A c \in Conns :
        Relayed(c) =>
            \A k \in CorsNames :
                /\ { n \in DOMAIN resp[c][1].headers : Lower(n) = Lower(k) } = {k}
                /\ resp[c][1].headers[k] = CorsValue(k)

\* C7: GET /health is answered by health_check with status 200 and the static
\* body, and never causes an upstream request.
C7_HealthIsStatic ==
    \A c \in Conns :
        (req[c] # NoValue /\ req[c].method = "GET" /\ req[c].urlpath = HEALTH_PATH) =>
            /\ handler[c] # "proxy_request"
            /\ calls[c] = 0
            /\ Answered(c) =>
                   /\ Len(resp[c]) = 1
                   /\ resp[c][1].status = 200
                   /\ resp[c][1].body =
                        <<"{\"status\": \"healthy\", \"service\": \"clearml-url-proxy\"}">>

\* C8: one upstream request per inbound request; a 3xx answer is returned to
\* the caller with its status, body and Location header, not followed.
C8_RedirectsNotFollowed ==
    \A c \in Conns :
        /\ calls[c] <= 1
        /\ (handler[c] = "proxy_request" /\ pc[c] \in {"returned", "raised", "responded"})
               => calls[c] = 1
        /\ (Relayed(c) /\ result[c].response.status_code \in 300..399) =>
               LET out == resp[c][1]
                   up  == result[c].response
               IN  /\ Len(resp[c]) = 1
                   /\ out.status = up.status_code
                   /\ out.body = up.content
                   /\ \A n \in DOMAIN up.headers :
                          Lower(n) = "location"
                              => (n \in DOMAIN out.headers /\ out.headers[n] = up.headers[n])

\* C8 witness: a 302 with a Location header has been relayed to the caller.
C8_Witness ==
    \E c \in Conns :
        /\ Relayed(c)
        /\ resp[c][1].status = 302
        /\ "Location" \in DOMAIN resp[c][1].headers
        /\ calls[c] = 1

-----------------------------------------------------------------------------
(* Concurrent requests *)

\* what a request handler keeps for its own connection
Own(c) == <<pc[c], req[c], handler[c], upstream[c], calls[c], result[c], resp[c]>>

ServerOutcome(r) ==
    \/ r.by = "relay"
    \/ r.status = 502
    \/ r.status \in 500..599

\* every request sent so far has its one response, of an allowed kind
AllAnswered ==
    \A c \in Conns :
        pc[c] = "idle" \/ (Answered(c) /\ Len(resp[c]) = 1 /\ ServerOutcome(resp[c][1]))

\* C10: every accepted request gets exactly one response (the relayed upstream
\* response, a 502 or a server error) and never a second one: no connection
\* ever holds two responses, and again and again every request sent so far
\* has been answered (a request, once sent, stays sent).
C10_EveryRequestAnsweredOnce ==
    /\ [](\A c \in Conns : Len(resp[c]) <= 1)
    /\ []<>AllAnswered

\* C10 witness: one request ended in an exception the handler does not catch
\* and was answered with a server error, and another was relayed.
C10_Witness ==
    \E c, d \in Conns :
        /\ Answered(c) /\ result[c].kind = "raise" /\ resp[c][1].status = 500
        /\ Relayed(d) /\ resp[d][1].by = "relay"

====
